---- MODULE Spec2Model ----
(***************************************************************************)
(* The inventory movement and stock-consumption engine of the POS backend: *)
(* products/services.py (receive_to_warehouse, dispatch_to_branch,         *)
(* receive_from_warehouse, _create_or_get_movement, _get_or_create_inv)    *)
(* and products/views.py (transfers, create_order, OrdersView.post), run   *)
(* by concurrent requests against one database.                            *)
(*                                                                         *)
(* The database is PostgreSQL (backend/settings.py:64) at its default      *)
(* isolation level, READ COMMITTED: a statement sees the rows committed    *)
(* when it starts plus the writes of its own transaction; SELECT ... FOR   *)
(* UPDATE and UPDATE take a row lock held until the transaction ends; an   *)
(* INSERT that collides on a unique index with an uncommitted INSERT of    *)
(* another transaction waits for that transaction to end.  Every request   *)
(* runs in one transaction (transaction.atomic on each view and service).  *)
(* There is one warehouse and one branch (settings.DEFAULT_BRANCH_ID), so  *)
(* a location is identified by its content type alone.                     *)
(***************************************************************************)
EXTENDS Integers, Sequences, FiniteSets, TLC

\* ------------------------------------------------------------ bounds
NProcs == 2
MaxReqs == 3
MaxQty == 2
MaxOrderReqs == 2
MaxSingleOrders == 1
MaxInvoiceReqs == 4

Procs == 1..NProcs
Tenants == {"Z0", "Z1"}
ProductIds == {1, 2}
QtyInputs == 0..MaxQty
NoKey == <<"none", 0>>
ClientKeys == {<<"client", 1>>}
KeyInputs == {NoKey} \cup ClientKeys

WAREHOUSE == "warehouse"
BRANCH == "branch"
NoLoc == "none"

INBOUND_RECEIPT == "INBOUND_RECEIPT"
DISPATCH_TO_BRANCH == "DISPATCH_TO_BRANCH"
RECEIVE_FROM_WAREHOUSE == "RECEIVE_FROM_WAREHOUSE"
POSTED == "POSTED"

VARIABLES
  inventory,   \* committed rows of table inventory (Inventory)
  movements,   \* committed rows of table stock_movement (StockMovement)
  sales,       \* committed rows of table sales (Sales)
  transfers,   \* committed rows of table stock_transfer (StockTransfer)
  invoices,    \* committed rows of table invoice (Invoice), each with its InvoiceLine rows
  invSeq,      \* the inventory id sequence (AutoField)
  mvSeq,       \* the stock_movement id sequence (AutoField)
  products,    \* rows of table product (Product): the catalogue, never written here
  budget,      \* how many more requests will be admitted
  proc,        \* per worker: the request it is serving and its open transaction
  last         \* the response the latest step returned to a caller, NoLast if none

vars == <<inventory, movements, sales, transfers, invoices, invSeq, mvSeq, products, budget, proc, last>>

EmptyTx == [inv |-> {}, mv |-> {}, sales |-> {}, tr |-> {}, invoices |-> {}]
NoDelta == [warehouse |-> 0, branch |-> 0]
\* Python's None where a number is expected; no balance is negative.
None == -1
NoResult == [movement_id |-> 0, idempotency_key |-> NoKey, onhand_after |-> 0,
             warehouse_onhand |-> None, branch_onhand |-> None]

IdleProc ==
  [pc |-> "idle", op |-> "none", call |-> "none", tenant |-> "Z0", product |-> 0,
   qty |-> 0, key |-> NoKey, rid |-> 0, inv |-> 0, seen |-> 0, locks |-> {},
   plocks |-> {}, lines |-> <<>>, wanted |-> <<>>, i |-> 0,
   tax_rate |-> 0, subtotal |-> 0, tax_sum |-> 0, missing |-> <<>>,
   tx |-> EmptyTx, sp |-> EmptyTx, mv1 |-> NoResult, mv2 |-> NoResult,
   dup |-> FALSE, raced |-> FALSE, applied |-> NoDelta,
   slocks |-> {}, invoice_no |-> 0]

NoLast ==
  [op |-> "none", call |-> "none", tenant |-> "Z0", product |-> 0, qty |-> 0,
   key |-> NoKey, rid |-> 0, status |-> "none", error |-> "none",
   seen |-> 0, lines |-> <<>>, wanted |-> <<>>, mv1 |-> NoResult, mv2 |-> NoResult,
   dup |-> FALSE,
   raced |-> FALSE, applied |-> NoDelta, changed |-> FALSE,
   tax_rate |-> 0, subtotal |-> 0, tax |-> 0, total |-> 0, missing |-> <<>>,
   limit |-> 0, rows |-> <<>>, invoice_no |-> 0]

\* ------------------------------------------------------------ the database
Ids(rows) == {r.id : r \in rows}

\* What a statement of a transaction sees of a table: the committed rows, with
\* the transaction's own writes on top.
Overlay(committed, own) == {r \in committed : r.id \notin Ids(own)} \cup own

InvView(p) == Overlay(inventory, proc[p].tx.inv)
MvView(p) == Overlay(movements, proc[p].tx.mv)

\* Inventory rows matching filter(tenant=, product=, content_type=, object_id=).
InvRows(rows, tenant, product, ct) ==
  {r \in rows : r.tenant = tenant /\ r.product = product /\ r.ct = ct}

\* Another transaction holds the row lock of inventory row id.
LockedByOther(p, id) == \E q \in Procs \ {p} : id \in proc[q].locks

\* Mutant of InvInsertPending: the table has no unique constraint, an INSERT
\* never waits for another.
InvInsertNeverPending(p, tenant, product, ct) == FALSE

\* Another transaction has an uncommitted INSERT of the same inventory key
\* (uq_inv_tenant_product_location): this INSERT would wait for it.
InvInsertPending(p, tenant, product, ct) ==
  \E q \in Procs \ {p} :
    \E r \in InvRows(proc[q].tx.inv, tenant, product, ct) : r.id \notin Ids(inventory)

\* Transaction q holds FOR KEY SHARE on product id: it has inserted a row
\* whose foreign key product (models.py:188, 277, 673) refers to it, the
\* database locking the referenced row for the check until q ends.
KeyShareBy(q, id) ==
  \/ \E m \in proc[q].tx.mv : m.product = id
  \/ \E r \in proc[q].tx.inv : r.product = id /\ r.id \notin Ids(inventory)
  \/ \E v \in proc[q].tx.invoices : \E l \in v.lines : l.product = id

KeyShareByOther(p, id) == \E q \in Procs \ {p} : KeyShareBy(q, id)

\* Another transaction holds the row lock of product id (select_for_update,
\* views.py:196-205, 394-401): FOR UPDATE, which also keeps an INSERT that
\* refers to the product waiting at its foreign-key check.
ProductLockedByOther(p, id) == \E q \in Procs \ {p} : id \in proc[q].plocks

\* Another transaction has an uncommitted INSERT of the same idempotency_key.
MvInsertPending(p, key) ==
  \E q \in Procs \ {p} : \E m \in proc[q].tx.mv : m.idempotency_key = key

\* Product.objects row of a product id that is in the catalogue.
ProductRow(id) == CHOOSE r \in products : r.id = id

\* Mutant of CkInvQtyNonnegative: the table has no check constraint.
CkInvQtyUnchecked(qty) == TRUE

\* ck_inv_qty_nonnegative (models.py:301).
CkInvQtyNonnegative(qty) == qty >= 0

\* The location a service function adjusts.
TargetCt(call) == IF call = "receive_from_warehouse" THEN BRANCH ELSE WAREHOUSE

\* Mutant of Delta: dispatch_to_branch adds qty as the receiving functions do.
DeltaAlwaysAdds(call, qty) == qty

\* The signed change a service function makes to that balance.
Delta(call, qty) == IF call = "dispatch_to_branch" THEN 0 - qty ELSE qty

MovementType(call) ==
  CASE call = "receive_to_warehouse" -> INBOUND_RECEIPT
    [] call = "dispatch_to_branch" -> DISPATCH_TO_BRANCH
    [] OTHER -> RECEIVE_FROM_WAREHOUSE

FromTarget(call) == IF call = "dispatch_to_branch" THEN WAREHOUSE ELSE NoLoc
\* Mutant of ToTarget: no to_target is handed to _create_or_get_movement.
ToTargetNone(call) == NoLoc

ToTarget(call) == IF call = "receive_to_warehouse" THEN WAREHOUSE ELSE BRANCH

Init ==
  /\ inventory = {}
  /\ movements = {}
  /\ sales = {}
  /\ transfers = {}
  /\ invoices = {}
  /\ invSeq = 0
  /\ mvSeq = 0
  /\ products = {[id |-> 1, tenant |-> "Z0", status |-> TRUE, price |-> 999]}
  /\ budget = MaxReqs
  /\ proc = [p \in Procs |-> IdleProc]
  /\ last = NoLast

\* ------------------------------------------------------------ money
\* Amounts are Decimals with two places (models.py:315, 585-588): integers, in
\* cents.  A tax rate is a Decimal too; it is kept as an integer number of
\* 1/RateScale, so that an amount times a rate is an integer number of
\* 1/RateScale cent.
RateScale == 10000

Abs(x) == IF x < 0 THEN 0 - x ELSE x

\* tax_rate = Decimal(str(data.get("tax_rate", "0"))); if tax_rate > 1:
\* tax_rate = tax_rate / Decimal("100") (views.py:164-169, 377-382).  raw is
\* the rate as sent, in hundredths (serializers.py:42: two decimal places).
NormalizeTaxRate(raw) == IF raw > 100 THEN raw ELSE 100 * raw

\* Mutant of Quantize: the rounding is Decimal's default, ROUND_HALF_EVEN.
QuantizeHalfEven(x) ==
  LET q == Abs(x) \div RateScale
      r == Abs(x) % RateScale
      n == IF 2 * r > RateScale \/ (2 * r = RateScale /\ q % 2 = 1) THEN q + 1 ELSE q
  IN IF x < 0 THEN 0 - n ELSE n

\* Decimal.quantize(Decimal("0.01"), rounding=ROUND_HALF_UP) of x/RateScale
\* cents: the nearest cent, a tie going away from zero.
Quantize(x) ==
  LET q == (Abs(x) + RateScale \div 2) \div RateScale
  IN IF x < 0 THEN 0 - q ELSE q

\* line_subtotal, line_tax and line_total of a line (views.py:288-290,
\* 483-485).
LineSubtotal(unit_price, qty) == unit_price * qty
LineTax(unit_price, qty, tax_rate) == Quantize(LineSubtotal(unit_price, qty) * tax_rate)
LineTotal(unit_price, qty, tax_rate) ==
  Quantize((LineSubtotal(unit_price, qty) + LineTax(unit_price, qty, tax_rate)) * RateScale)

\* The order-level tax of the response: create_order adds up the line taxes
\* (views.py:511, 517), OrdersView.post taxes the subtotal (views.py:316).
OrderTax(me) ==
  IF me.op = "create_order" THEN me.tax_sum ELSE Quantize(me.subtotal * me.tax_rate)

\* total = (subtotal + tax).quantize(...) (views.py:317, 513).
OrderTotal(me) == Quantize((me.subtotal + OrderTax(me)) * RateScale)

\* ------------------------------------------------------------ ending a request
\* What the caller of request me gets back, with the request's arguments and
\* what the checks below need to know of its run: seen, the balance it last
\* read; dup, whether its idempotency key was already posted when it began;
\* raced, whether an identical call ran at the same time; applied, the
\* changes its UPDATEs made per location; changed, whether the step that
\* ended it changed a committed table.
Response(me, status, error, mv1, mv2, changed) ==
  [op |-> me.op, call |-> me.call, tenant |-> me.tenant, product |-> me.product,
   qty |-> me.qty, key |-> me.key, rid |-> me.rid, status |-> status,
   error |-> error, seen |-> me.seen, lines |-> me.lines, wanted |-> me.wanted,
   mv1 |-> mv1,
   mv2 |-> mv2, dup |-> me.dup, raced |-> me.raced, applied |-> me.applied,
   changed |-> changed, tax_rate |-> me.tax_rate, subtotal |-> me.subtotal,
   tax |-> OrderTax(me), total |-> OrderTotal(me), missing |-> me.missing,
   limit |-> 0, rows |-> <<>>, invoice_no |-> me.invoice_no]

\* The request me of worker p ends with the given response.  tx is what its
\* transaction commits: everything it wrote when the view returns normally,
\* nothing when an exception leaves transaction.atomic.  Row locks are released.
FinishWith(p, me, status, error, tx, mv1, mv2) ==
  /\ inventory' = Overlay(inventory, tx.inv)
  /\ movements' = Overlay(movements, tx.mv)
  /\ sales' = {x \in sales : ~\E y \in tx.sales : y.order_id = x.order_id /\ y.line = x.line}
               \cup tx.sales
  /\ transfers' = transfers \cup tx.tr
  /\ invoices' = invoices \cup tx.invoices
  /\ proc' = [proc EXCEPT ![p] = IdleProc]
  /\ last' = Response(me, status, error, mv1, mv2,
                      inventory' # inventory \/ movements' # movements
                        \/ sales' # sales \/ transfers' # transfers
                        \/ invoices' # invoices)

Finish(p, status, error, tx, mv1, mv2) ==
  FinishWith(p, proc[p], status, error, tx, mv1, mv2)

\* Mutant of Raise: the exception is answered without rolling back, so the
\* transaction commits what it wrote before the exception.
RaiseCommits(p, exc, msg) ==
  Finish(p, IF proc[p].op = "transfers" THEN "409" ELSE exc, msg, proc[p].tx,
         NoResult, NoResult)

\* An exception raised inside a service function.  Called on its own, the
\* function's transaction.atomic rolls everything back and the caller gets the
\* exception.  Called by transfers (views.py:1430-1442), the function's
\* atomic block is a savepoint: its writes are undone back to sp; a StockError
\* is then caught and answered with 409, a normal return that commits what
\* the transaction wrote before the savepoint; any other exception leaves the
\* view and rolls the whole transaction back.
Raise(p, exc, msg) ==
  IF proc[p].op = "transfers"
    THEN IF exc = "StockError"
           THEN Finish(p, "409", "insufficient_stock", proc[p].sp, proc[p].mv1, NoResult)
           ELSE Finish(p, "500", msg, EmptyTx, NoResult, NoResult)
    ELSE Finish(p, exc, msg, EmptyTx, NoResult, NoResult)

\* ------------------------------------------------------------ services.py
\* Mutant of Validate: the call to _ensure_tenant is missing.
ValidateQtyOnly(tenant, product, qty) ==
  IF qty <= 0 THEN "qty must be > 0" ELSE "none"

\* Mutant of Validate: the test of qty is missing.
ValidateTenantOnly(tenant, product, qty) ==
  IF product.tenant # tenant THEN "Tenant mismatch" ELSE "none"

\* The checks a stock operation makes before it touches a row
\* (services.py:161-163, 192-194, 226-228), with _ensure_tenant (108-113).
Validate(tenant, product, qty) ==
  IF qty <= 0 THEN "qty must be > 0"
  ELSE IF product.tenant # tenant THEN "Tenant mismatch"
  ELSE "none"

StockOps == {"receive_to_warehouse", "dispatch_to_branch", "receive_from_warehouse"}

\* A caller invokes one of the three stock operations.  A call rejected by
\* Validate ends at once: it has opened no transaction and touched no row.
StartStock(p, calls, tenants, qtys, keys) ==
  /\ proc[p].pc = "idle"
  /\ budget > 0
  /\ \E call \in calls, tenant \in tenants, product \in products,
        qty \in qtys, key \in keys :
       LET twins == {q \in Procs \ {p} :
                       /\ proc[q].pc # "idle" /\ key # NoKey
                       /\ proc[q].op = call /\ proc[q].key = key
                       /\ proc[q].tenant = tenant /\ proc[q].product = product.id
                       /\ proc[q].qty = qty}
           me == [IdleProc EXCEPT !.op = call, !.call = call, !.tenant = tenant,
                                  !.product = product.id, !.qty = qty, !.key = key,
                                  !.dup = (\E m \in movements : m.idempotency_key = key),
                                  !.raced = (twins # {})]
           err == Validate(tenant, product, qty)
       IN IF err # "none"
            THEN /\ p = CHOOSE q \in Procs : proc[q].pc = "idle"
                 /\ last' = Response(me, "StockError", err, NoResult, NoResult, FALSE)
                 /\ UNCHANGED <<inventory, movements, sales, transfers, invoices, proc, budget>>
            ELSE /\ proc' = [q \in Procs |->
                             IF q = p THEN [me EXCEPT !.pc = "lock"]
                             ELSE IF q \in twins THEN [proc[q] EXCEPT !.raced = TRUE]
                             ELSE proc[q]]
                 /\ budget' = budget - 1
                 /\ last' = NoLast
                 /\ UNCHANGED <<inventory, movements, sales, transfers, invoices>>
  /\ UNCHANGED <<invSeq, mvSeq, products>>

\* Inventory.objects.select_for_update().filter(...).first()
\* (services.py:165-170, 196-201, 230-235): the row is locked and read, or
\* there is none.
Lock(p) ==
  /\ proc[p].pc = "lock"
  /\ LET rows == InvRows(InvView(p), proc[p].tenant, proc[p].product, TargetCt(proc[p].call))
     IN IF rows = {}
          THEN proc' = [proc EXCEPT ![p].pc = "goc"]
          ELSE LET r == CHOOSE x \in rows : \A y \in rows : x.id <= y.id
               IN /\ ~LockedByOther(p, r.id)
                  /\ proc' = [proc EXCEPT ![p].pc = "save", ![p].inv = r.id,
                                          ![p].seen = r.qty,
                                          ![p].locks = @ \cup {r.id}]
  /\ last' = NoLast
  /\ UNCHANGED <<inventory, movements, sales, transfers, invoices, invSeq, mvSeq, products, budget>>

\* _get_or_create_inv (services.py:100-106), reached when the locking query
\* found no row.  get_or_create returns the row if one is committed by now
\* (a plain SELECT: no lock), else inserts one with qty 0; an INSERT that
\* collides with another transaction's uncommitted INSERT waits for it and
\* then, on the IntegrityError, get_or_create reads the committed row.
GetOrCreateInv(p) ==
  /\ proc[p].pc = "goc"
  /\ LET ct == TargetCt(proc[p].call)
         rows == InvRows(InvView(p), proc[p].tenant, proc[p].product, ct)
     IN IF rows # {}
          THEN LET r == CHOOSE x \in rows : TRUE
               IN /\ proc' = [proc EXCEPT ![p].pc = "save", ![p].inv = r.id,
                                          ![p].seen = r.qty]
                  /\ invSeq' = invSeq
          ELSE /\ ~InvInsertPending(p, proc[p].tenant, proc[p].product, ct)
               /\ ~ProductLockedByOther(p, proc[p].product)
               /\ invSeq' = invSeq + 1
               /\ proc' = [proc EXCEPT
                     ![p].pc = "save", ![p].inv = invSeq + 1, ![p].seen = 0,
                     ![p].tx.inv = @ \cup {[id |-> invSeq + 1, tenant |-> proc[p].tenant,
                                            product |-> proc[p].product, ct |-> ct,
                                            qty |-> 0]}]
  /\ last' = NoLast
  /\ UNCHANGED <<inventory, movements, sales, transfers, invoices, mvSeq, products, budget>>

\* Mutant of Insufficient: dispatch_to_branch makes no sufficiency check.
InsufficientNever(call, seen, qty) == FALSE

\* dispatch_to_branch's sufficiency check on the quantity it read
\* (services.py:204-205).
Insufficient(call, seen, qty) == call = "dispatch_to_branch" /\ seen < qty

\* inv.qty = F("qty") +/- qty; inv.save(); inv.refresh_from_db()
\* (services.py:173-175, 207-209, 238-240): UPDATE ... SET qty = qty +/- n takes
\* the row lock (waiting for its holder), applies the change to the row as it
\* is now, and fails with IntegrityError when the result breaks
\* ck_inv_qty_nonnegative.
Save(p) ==
  /\ proc[p].pc = "save"
  /\ IF Insufficient(proc[p].call, proc[p].seen, proc[p].qty)
       THEN /\ Raise(p, "StockError", "insufficient on-hand in warehouse")
       ELSE /\ ~LockedByOther(p, proc[p].inv)
            /\ LET cur == CHOOSE r \in InvView(p) : r.id = proc[p].inv
                   new == cur.qty + Delta(proc[p].call, proc[p].qty)
               IN IF ~CkInvQtyNonnegative(new)
                    THEN Raise(p, "IntegrityError", "ck_inv_qty_nonnegative")
                    ELSE /\ proc' = [proc EXCEPT
                               ![p].pc = "post", ![p].seen = new,
                               ![p].locks = @ \cup {proc[p].inv},
                               ![p].applied[TargetCt(proc[p].call)] =
                                   @ + Delta(proc[p].call, proc[p].qty),
                               ![p].tx.inv = {r \in @ : r.id # cur.id}
                                               \cup {[cur EXCEPT !.qty = new]}]
                         /\ last' = NoLast
                         /\ UNCHANGED <<inventory, movements, sales, transfers, invoices>>
  /\ UNCHANGED <<invSeq, mvSeq, products, budget>>

\* Mutant of CreateOrGetMovement: get_or_create is called whether or not
\* there is a key, a call without one looking the row up by its fields.
CreateOrGetMovementAlways(p, mvs, key) ==
  LET same == {m \in mvs :
                 IF key # NoKey THEN m.idempotency_key = key
                 ELSE /\ m.tenant = proc[p].tenant /\ m.product = proc[p].product
                      /\ m.movement_type = MovementType(proc[p].call)
                      /\ m.qty = proc[p].qty}
  IN IF same # {}
       THEN CHOOSE m \in same : TRUE
       ELSE [id |-> mvSeq + 1, tenant |-> proc[p].tenant, product |-> proc[p].product,
             movement_type |-> MovementType(proc[p].call), qty |-> proc[p].qty,
             from |-> FromTarget(proc[p].call), to |-> ToTarget(proc[p].call),
             idempotency_key |-> IF key = NoKey THEN <<"uuid4", mvSeq + 1>> ELSE key,
             status |-> POSTED]

\* Mutant of CreateOrGetMovement: update_or_create in place of get_or_create,
\* the row that carries the key takes the fields of the call.
CreateOrGetMovementUpdates(p, mvs, key) ==
  IF key # NoKey /\ (\E m \in mvs : m.idempotency_key = key)
    THEN [(CHOOSE m \in mvs : m.idempotency_key = key) EXCEPT
            !.tenant = proc[p].tenant, !.product = proc[p].product,
            !.movement_type = MovementType(proc[p].call), !.qty = proc[p].qty,
            !.from = FromTarget(proc[p].call), !.to = ToTarget(proc[p].call)]
    ELSE [id |-> mvSeq + 1, tenant |-> proc[p].tenant, product |-> proc[p].product,
          movement_type |-> MovementType(proc[p].call), qty |-> proc[p].qty,
          from |-> FromTarget(proc[p].call), to |-> ToTarget(proc[p].call),
          idempotency_key |-> IF key = NoKey THEN <<"uuid4", mvSeq + 1>> ELSE key,
          status |-> POSTED]

\* _create_or_get_movement (services.py:115-154).  With an idempotency key,
\* StockMovement.objects.get_or_create(idempotency_key=key, defaults=kwargs)
\* returns the row that carries the key, whatever its other fields, or
\* inserts one; an INSERT that collides with another transaction's uncommitted
\* INSERT of the key waits for it, and on the IntegrityError get_or_create
\* reads the row that transaction committed.  Without a key the row is
\* always inserted, under a fresh uuid4 (models.py:210).
CreateOrGetMovement(p, mvs, key) ==
  IF key # NoKey /\ (\E m \in mvs : m.idempotency_key = key)
    THEN CHOOSE m \in mvs : m.idempotency_key = key
    ELSE [id |-> mvSeq + 1, tenant |-> proc[p].tenant, product |-> proc[p].product,
          movement_type |-> MovementType(proc[p].call), qty |-> proc[p].qty,
          from |-> FromTarget(proc[p].call), to |-> ToTarget(proc[p].call),
          idempotency_key |-> IF key = NoKey THEN <<"uuid4", mvSeq + 1>> ELSE key,
          status |-> POSTED]

\* Mutant of MoveResult: only onhand_after is filled in.
MoveResultOnhandAfterOnly(call, mv, qty) ==
  [movement_id |-> mv.id, idempotency_key |-> mv.idempotency_key, onhand_after |-> qty,
   warehouse_onhand |-> None, branch_onhand |-> None]

\* MoveResult(mv.id, str(mv.idempotency_key), onhand_after=int(inv.qty),
\* warehouse_onhand=int(inv.qty)) in the two warehouse functions,
\* branch_onhand=int(br_inv.qty) in receive_from_warehouse
\* (services.py:184-185, 218-219, 249-250); the other field keeps its
\* default None (services.py:92-93).
MoveResult(call, mv, qty) ==
  [movement_id |-> mv.id, idempotency_key |-> mv.idempotency_key, onhand_after |-> qty,
   warehouse_onhand |-> IF call = "receive_from_warehouse" THEN None ELSE qty,
   branch_onhand |-> IF call = "receive_from_warehouse" THEN qty ELSE None]

\* The idempotency key a request hands to the service function it is in:
\* the caller's key, or for transfers uuid5(tid, "OUT") / uuid5(tid, "IN")
\* (views.py:1426-1428), tid being a fresh uuid4 per request.
CallKey(p) ==
  IF proc[p].op = "transfers"
    THEN IF proc[p].call = "dispatch_to_branch"
           THEN <<"OUT", proc[p].rid>> ELSE <<"IN", proc[p].rid>>
    ELSE proc[p].key

\* getattr(mv, "id", None) (views.py:1448-1449) on a MoveResult, whose
\* fields are movement_id, idempotency_key, onhand_after, warehouse_onhand and
\* branch_onhand (services.py:87-93): there is no attribute id, so the
\* default, None (0 here, which is no row's id), is taken.
GetattrId(r) == IF "id" \in DOMAIN r THEN r.id ELSE 0

\* StockTransfer.objects.create(...) (views.py:1444-1450).
StockTransfer(p, mv1, mv2) ==
  [transfer_id |-> proc[p].rid, tenant |-> proc[p].tenant, product |-> proc[p].product,
   qty |-> proc[p].qty, status |-> POSTED,
   dispatch_movement_id |-> GetattrId(mv1), receive_movement_id |-> GetattrId(mv2)]

\* The ledger row is posted and the service function returns its MoveResult.
\* A stock operation called on its own is then done; transfers goes on from
\* dispatch_to_branch to receive_from_warehouse (views.py:1431-1438), and
\* from there to the StockTransfer record.
Post(p) ==
  /\ proc[p].pc = "post"
  /\ LET key == CallKey(p)
         mv == CreateOrGetMovement(p, MvView(p), key)
         created == mv \notin MvView(p)
         r == MoveResult(proc[p].call, mv, proc[p].seen)
         tx1 == [proc[p].tx EXCEPT !.mv = IF created THEN @ \cup {mv} ELSE @]
     IN /\ created /\ key # NoKey => ~MvInsertPending(p, key)
        /\ created => ~ProductLockedByOther(p, proc[p].product)
        /\ mvSeq' = IF created THEN mvSeq + 1 ELSE mvSeq
        /\ IF proc[p].op # "transfers"
             THEN /\ proc' = [proc EXCEPT ![p].pc = "commit", ![p].mv1 = r, ![p].tx = tx1]
                  /\ last' = NoLast
                  /\ UNCHANGED <<inventory, movements, sales, transfers, invoices>>
           ELSE IF proc[p].call = "dispatch_to_branch"
             THEN LET err == Validate(proc[p].tenant, ProductRow(proc[p].product),
                                      proc[p].qty)
                  IN IF err # "none"
                       THEN Finish(p, "409", "insufficient_stock", tx1, r, NoResult)
                       ELSE /\ proc' = [proc EXCEPT
                                  ![p].pc = "lock", ![p].call = "receive_from_warehouse",
                                  ![p].mv1 = r, ![p].tx = tx1, ![p].sp = tx1,
                                  ![p].inv = 0, ![p].seen = 0]
                            /\ last' = NoLast
                            /\ UNCHANGED <<inventory, movements, sales, transfers, invoices>>
           ELSE /\ proc' = [proc EXCEPT
                      ![p].pc = "commit", ![p].mv2 = r,
                      ![p].tx = [tx1 EXCEPT !.tr = @ \cup {StockTransfer(p, proc[p].mv1, r)}]]
                /\ last' = NoLast
                /\ UNCHANGED <<inventory, movements, sales, transfers, invoices>>
  /\ UNCHANGED <<invSeq, products, budget>>

\* The view returns: transaction.atomic commits.
Commit(p) ==
  /\ proc[p].pc = "commit"
  /\ Finish(p, IF proc[p].op \in StockOps THEN "ok" ELSE "201", "none",
            proc[p].tx, proc[p].mv1, proc[p].mv2)
  /\ UNCHANGED <<invSeq, mvSeq, products, budget>>

\* ------------------------------------------------------------ views.py: transfers
TransferQtys == {-1} \cup QtyInputs

\* POST transfers (views.py:1389-1434): the body is checked, the product is
\* looked up under the tenant, a transfer id is drawn (tid = uuid.uuid4(),
\* views.py:1426: a new one for every request, rid here), and
\* dispatch_to_branch is entered.  A request answered 400 has touched nothing.
\* dup records whether a transfer with the same body is already committed.
StartTransfer(p, tenants, qtys) ==
  /\ proc[p].pc = "idle"
  /\ budget > 0
  /\ \E tenant \in tenants, product_id \in ProductIds, qty \in qtys :
       LET me == [IdleProc EXCEPT !.op = "transfers", !.call = "dispatch_to_branch",
                                  !.tenant = tenant, !.product = product_id,
                                  !.qty = qty, !.rid = budget,
                                  !.dup = (\E x \in transfers :
                                             /\ x.tenant = tenant
                                             /\ x.product = product_id
                                             /\ x.qty = qty)]
           found == {r \in products : r.id = product_id /\ r.tenant = tenant /\ r.status}
       IN IF qty = 0
            THEN /\ p = CHOOSE q \in Procs : proc[q].pc = "idle"
                 /\ last' = Response(me, "400", "product_id, branch_id, qty are required",
                                     NoResult, NoResult, FALSE)
                 /\ UNCHANGED <<proc, budget>>
          ELSE IF found = {}
            THEN /\ p = CHOOSE q \in Procs : proc[q].pc = "idle"
                 /\ last' = Response(me, "400", "Product not found or inactive",
                                     NoResult, NoResult, FALSE)
                 /\ UNCHANGED <<proc, budget>>
          ELSE IF Validate(tenant, ProductRow(product_id), qty) # "none"
            THEN /\ p = CHOOSE q \in Procs : proc[q].pc = "idle"
                 /\ last' = Response(me, "409", "insufficient_stock",
                                     NoResult, NoResult, FALSE)
                 /\ UNCHANGED <<proc, budget>>
          ELSE /\ proc' = [proc EXCEPT ![p] = [me EXCEPT !.pc = "lock"]]
               /\ budget' = budget - 1
               /\ last' = NoLast
  /\ UNCHANGED <<inventory, movements, sales, transfers, invoices, invSeq, mvSeq, products>>

\* ------------------------------------------------------------ views.py: order capture
\* wanted = defaultdict(int); wanted[product_id] += qty (views.py:384-386):
\* one entry per product, in the order the products first appear.
RECURSIVE Aggregate(_, _)
Aggregate(lines, acc) ==
  IF lines = <<>> THEN acc
  ELSE LET ln == Head(lines)
           hit == {j \in 1..Len(acc) : acc[j][1] = ln[1]}
       IN Aggregate(Tail(lines),
                    IF hit = {} THEN Append(acc, ln)
                    ELSE [j \in 1..Len(acc) |->
                            IF j \in hit THEN <<acc[j][1], acc[j][2] + ln[2]>> ELSE acc[j]])

\* The (product_id, qty) pairs a view works through: create_order sums the
\* lines per product, OrdersView.post keeps them as sent (views.py:188-194).
Wanted(op, lines) == IF op = "create_order" THEN Aggregate(lines, <<>>) ELSE lines

\* Mutant of OrderById: order_by("-id"), the latest row first.
RECURSIVE OrderByIdReversed(_)
OrderByIdReversed(rows) ==
  IF rows = {} THEN <<>>
  ELSE LET r == CHOOSE x \in rows : \A y \in rows : x.id >= y.id
       IN <<r>> \o OrderByIdReversed(rows \ {r})

\* Rows in ascending id: order_by("id") (views.py:263, 458).
RECURSIVE OrderById(_)
OrderById(rows) ==
  IF rows = {} THEN <<>>
  ELSE LET r == CHOOSE x \in rows : \A y \in rows : x.id <= y.id
       IN <<r>> \o OrderById(rows \ {r})

\* take = min(int(rec.qty), remaining) (views.py:270, 465).
Take(qty, remaining) == IF qty < remaining THEN qty ELSE remaining

\* The drain loop (views.py:266-274, 461-469) over the locked rows, in
\* order: the rows as it leaves them, and what remains to be taken.
RECURSIVE Drain(_, _)
Drain(recs, remaining) ==
  IF recs = <<>> \/ remaining <= 0 THEN [rows |-> {r \in {} : TRUE}, remaining |-> remaining]
  ELSE LET rec == Head(recs)
           take == Take(rec.qty, remaining)
           rest == Drain(Tail(recs), remaining - take)
       IN [rows |-> (IF take > 0 THEN {[rec EXCEPT !.qty = rec.qty - take]} ELSE {})
                      \cup rest.rows,
           remaining |-> rest.remaining]

\* Sum("qty") over a set of rows.
RECURSIVE SumQty(_)
SumQty(rows) ==
  IF rows = {} THEN 0
  ELSE LET r == CHOOSE x \in rows : TRUE IN r.qty + SumQty(rows \ {r})

\* Mutant of OrderStages: the rows are drained before availability is checked.
OrderStagesDrainFirst == <<"o_line", "o_check">>

\* The order in which a view does its work once the products are locked:
\* the availability pre-check over all of wanted (views.py:208-245,
\* 403-440), then the drain loop over all of wanted (251-301, 446-497).
OrderStages == <<"o_check", "o_line">>

StageAfter(pc) ==
  LET k == CHOOSE j \in 1..Len(OrderStages) : OrderStages[j] = pc
  IN IF k < Len(OrderStages) THEN OrderStages[k + 1] ELSE "commit"

\* POST orders: create_order (views.py:338-392) or OrdersView.post
\* (views.py:156-194).  The tenant and the branch are the configured
\* defaults.  A line with qty < 1 is refused by the serializer
\* (serializers.py:35) or as "invalid line" (views.py:192-193).
StartOrder(p, views, lineSeqs, rates) ==
  /\ proc[p].pc = "idle"
  /\ budget > 0
  /\ \E op \in views, lines \in lineSeqs, raw \in rates :
       LET me == [IdleProc EXCEPT !.op = op, !.tenant = "Z0", !.rid = budget,
                                  !.lines = lines, !.wanted = Wanted(op, lines),
                                  !.tax_rate = NormalizeTaxRate(raw)]
       IN IF \E j \in 1..Len(lines) : lines[j][2] <= 0
            THEN /\ p = CHOOSE q \in Procs : proc[q].pc = "idle"
                 /\ last' = Response([me EXCEPT !.wanted = lines], "400", "invalid line",
                                     NoResult, NoResult, FALSE)
                 /\ UNCHANGED <<proc, budget>>
            ELSE /\ proc' = [proc EXCEPT ![p] = [me EXCEPT !.pc = "o_lock"]]
                 /\ budget' = budget - 1
                 /\ last' = NoLast
  /\ UNCHANGED <<inventory, movements, sales, transfers, invoices, invSeq, mvSeq, products>>

\* Mutant of ActiveProducts: the query does not filter on the tenant.
ActiveProductsAnyTenant(tenant, ids) == {x \in products : x.id \in ids /\ x.status}

\* Product.objects.filter(id__in=product_ids, tenant=tenant, status=True)
\* (views.py:197-201, 394-397).
ActiveProducts(tenant, ids) ==
  {x \in products : x.id \in ids /\ x.tenant = tenant /\ x.status}

\* Product.objects.select_for_update().filter(...) (views.py:196-205,
\* 394-401): the matching product rows are locked; an order naming a product
\* that is not among them is answered 400 with missing, the ids of
\* product_ids that are not, in the order of product_ids.
OrderLockProducts(p) ==
  /\ proc[p].pc = "o_lock"
  /\ LET product_ids == [j \in 1..Len(proc[p].wanted) |-> proc[p].wanted[j][1]]
         ids == {product_ids[j] : j \in 1..Len(product_ids)}
         pmap == {r.id : r \in ActiveProducts(proc[p].tenant, ids)}
         NotInPmap(pid) == pid \notin pmap
         missing == SelectSeq(product_ids, NotInPmap)
     IN /\ \A id \in pmap : ~ProductLockedByOther(p, id) /\ ~KeyShareByOther(p, id)
        /\ IF missing # <<>>
             THEN FinishWith(p, [proc[p] EXCEPT !.missing = missing], "400",
                             "Products not found or inactive", proc[p].tx,
                             NoResult, NoResult)
             ELSE /\ proc' = [proc EXCEPT ![p].pc = OrderStages[1], ![p].plocks = pmap,
                                          ![p].i = 1]
                  /\ last' = NoLast
                  /\ UNCHANGED <<inventory, movements, sales, transfers, invoices>>
  /\ UNCHANGED <<invSeq, mvSeq, products, budget>>

\* The pre-check (views.py:208-245, 403-440): the branch total of every
\* wanted product is read without a lock; the first entry that asks for more
\* than its product's total is answered 409, a normal return.
OrderPrecheck(p) ==
  /\ proc[p].pc = "o_check"
  /\ LET w == proc[p].wanted
         total(pid) == SumQty(InvRows(InvView(p), proc[p].tenant, pid, BRANCH))
     IN IF \E j \in 1..Len(w) : total(w[j][1]) < w[j][2]
          THEN Finish(p, "409", "insufficient_stock", proc[p].tx, NoResult, NoResult)
          ELSE /\ proc' = [proc EXCEPT ![p].pc = StageAfter("o_check"), ![p].i = 1]
               /\ last' = NoLast
               /\ UNCHANGED <<inventory, movements, sales, transfers, invoices>>
  /\ UNCHANGED <<invSeq, mvSeq, products, budget>>

\* One pass of the drain loop (views.py:251-301, 446-497): the branch rows of
\* the product are locked in id order and drained, and the Sales row of the
\* entry is created with unit_sold = qty.  taken, which is no column of the
\* table, records how many units the pass took from the rows.
OrderLine(p) ==
  /\ proc[p].pc = "o_line"
  /\ LET w == proc[p].wanted
         i == proc[p].i
         invs == InvRows(InvView(p), proc[p].tenant, w[i][1], BRANCH)
         d == Drain(OrderById(invs), w[i][2])
         unit_price == ProductRow(w[i][1]).price
         line_tax == LineTax(unit_price, w[i][2], proc[p].tax_rate)
         sale == [order_id |-> proc[p].rid, line |-> i, product |-> w[i][1],
                  unit_sold |-> w[i][2], taken |-> w[i][2] - d.remaining,
                  unit_price_snapshot |-> unit_price, tax_value_applied |-> line_tax,
                  line_total |-> LineTotal(unit_price, w[i][2], proc[p].tax_rate),
                  receipt_no |-> 0]
     IN /\ \A r \in invs : ~LockedByOther(p, r.id)
        /\ IF \E r \in d.rows : ~CkInvQtyNonnegative(r.qty)
             THEN Finish(p, "500", "ck_inv_qty_nonnegative", EmptyTx, NoResult, NoResult)
             ELSE /\ proc' = [proc EXCEPT
                        ![p].pc = IF i < Len(w) THEN "o_line" ELSE StageAfter("o_line"),
                        ![p].i = IF i < Len(w) THEN i + 1 ELSE 1,
                        ![p].locks = @ \cup Ids(invs),
                        ![p].applied[BRANCH] = @ - (w[i][2] - d.remaining),
                        ![p].subtotal = @ + LineSubtotal(unit_price, w[i][2]),
                        ![p].tax_sum = IF proc[p].op = "create_order"
                                         THEN @ + line_tax ELSE @,
                        ![p].tx.inv = Overlay(@, d.rows),
                        ![p].tx.sales = @ \cup {sale}]
                  /\ last' = NoLast
                  /\ UNCHANGED <<inventory, movements, sales, transfers, invoices>>
  /\ UNCHANGED <<invSeq, mvSeq, products, budget>>

\* ------------------------------------------------------------ services.py: invoices
\* Invoice rows a statement of p's transaction sees.
InvoiceView(p) == invoices \cup proc[p].tx.invoices

\* Another transaction holds the row lock of a Sales row.
SalesLockedByOther(p, rows) ==
  \E q \in Procs \ {p} : \E x \in rows : \E y \in proc[q].slocks :
    x.order_id = y.order_id /\ x.line = y.line

\* Another transaction has an uncommitted INSERT of the same invoice_no
\* (unique, models.py:639): this INSERT would wait for it.
InvoiceInsertPending(p, no) ==
  \E q \in Procs \ {p} : \E v \in proc[q].tx.invoices : v.invoice_no = no

\* sum(f(r) for r in rows), f given as a function on rows.
RECURSIVE SumOver(_, _)
SumOver(rows, f) ==
  IF rows = {} THEN 0
  ELSE LET x == CHOOSE y \in rows : TRUE IN f[x] + SumOver(rows \ {x}, f)

\* next_invoice_no (services.py:21-33) for one branch on one day: the
\* sequence number after the greatest invoice_no with the day's prefix, 1 when
\* there is none.  The number stands for INV-<branch>-<day>-<seq:04d>, whose
\* string order is the order of seq below 10000.
NextInvoiceNo(rows) ==
  IF rows = {} THEN 1
  ELSE (CHOOSE n \in {v.invoice_no : v \in rows} :
          \A v \in rows : v.invoice_no <= n) + 1

\* POST invoices (views.py:774-803): a body without order_id is answered 400;
\* the tenant and the branch are the configured defaults.
StartInvoice(p, orderIds) ==
  /\ proc[p].pc = "idle"
  /\ budget > 0
  /\ \E order_id \in orderIds :
       LET me == [IdleProc EXCEPT !.op = "invoices", !.tenant = "Z0", !.rid = order_id]
       IN IF order_id = 0
            THEN /\ p = CHOOSE q \in Procs : proc[q].pc = "idle"
                 /\ last' = Response(me, "400", "order_id is required",
                                     NoResult, NoResult, FALSE)
                 /\ UNCHANGED <<proc, budget>>
            ELSE /\ proc' = [proc EXCEPT ![p] = [me EXCEPT !.pc = "i_existing"]]
                 /\ budget' = budget - 1
                 /\ last' = NoLast
  /\ UNCHANGED <<inventory, movements, sales, transfers, invoices, invSeq, mvSeq, products>>

\* create_invoice_for_order, services.py:38-40: an invoice of the order that
\* is committed by now is returned (first() of an unordered query: any of
\* them), and the view answers 201 with it.
InvoiceExisting(p) ==
  /\ proc[p].pc = "i_existing"
  /\ LET existing == {v \in InvoiceView(p) : v.tenant = proc[p].tenant
                                               /\ v.order_id = proc[p].rid}
     IN IF existing # {}
          THEN \E v \in existing :
                 FinishWith(p, [proc[p] EXCEPT !.invoice_no = v.invoice_no], "201",
                            "none", proc[p].tx, NoResult, NoResult)
          ELSE /\ proc' = [proc EXCEPT ![p].pc = "i_lock"]
               /\ last' = NoLast
               /\ UNCHANGED <<inventory, movements, sales, transfers, invoices>>
  /\ UNCHANGED <<invSeq, mvSeq, products, budget>>

\* services.py:42-47: the Sales rows of the order are read under
\* select_for_update, which waits while another transaction holds one of
\* them and then reads the rows as committed; no rows is a ValueError, which
\* the view answers 400 (views.py:807-808).
InvoiceLockSales(p) ==
  /\ proc[p].pc = "i_lock"
  /\ LET rows == {x \in sales : x.order_id = proc[p].rid}
     IN /\ ~SalesLockedByOther(p, rows)
        /\ IF rows = {}
             THEN Finish(p, "400", "No sales rows", proc[p].tx, NoResult, NoResult)
             ELSE /\ proc' = [proc EXCEPT ![p].pc = "i_no", ![p].slocks = rows]
                  /\ last' = NoLast
                  /\ UNCHANGED <<inventory, movements, sales, transfers, invoices>>
  /\ UNCHANGED <<invSeq, mvSeq, products, budget>>

\* services.py:57: next_invoice_no(branch.id) reads the greatest number.
InvoiceNextNo(p) ==
  /\ proc[p].pc = "i_no"
  /\ proc' = [proc EXCEPT ![p].pc = "i_create",
                          ![p].invoice_no = NextInvoiceNo(InvoiceView(p))]
  /\ last' = NoLast
  /\ UNCHANGED <<inventory, movements, sales, transfers, invoices, invSeq, mvSeq,
                 products, budget>>

\* services.py:49-78: the Invoice row is inserted with the sums of the Sales
\* rows, then one InvoiceLine per Sales row, and the Sales rows get the
\* invoice_no as receipt_no.  The INSERT waits for an uncommitted INSERT of
\* the same invoice_no; a committed one is an IntegrityError, which leaves the
\* view and rolls the transaction back.
InvoiceCreate(p) ==
  /\ proc[p].pc = "i_create"
  /\ LET rows == proc[p].slocks
         no == proc[p].invoice_no
         Sub == [r \in rows |-> r.unit_price_snapshot * r.unit_sold]
         Tax == [r \in rows |-> r.tax_value_applied]
         Tot == [r \in rows |-> r.line_total]
         inv == [tenant |-> proc[p].tenant, order_id |-> proc[p].rid, invoice_no |-> no,
                 subtotal |-> SumOver(rows, Sub), tax |-> SumOver(rows, Tax),
                 total |-> SumOver(rows, Tot),
                 lines |-> {[product |-> r.product, qty |-> r.unit_sold,
                             unit_price |-> r.unit_price_snapshot,
                             tax |-> r.tax_value_applied,
                             line_total |-> r.line_total] : r \in rows}]
     IN /\ ~InvoiceInsertPending(p, no)
        /\ \A r \in rows : ~ProductLockedByOther(p, r.product)
        /\ IF \E v \in invoices : v.invoice_no = no
             THEN Finish(p, "500", "invoice_invoice_no_key", EmptyTx, NoResult, NoResult)
             ELSE /\ proc' = [proc EXCEPT
                        ![p].pc = "commit",
                        ![p].tx.invoices = @ \cup {inv},
                        ![p].tx.sales = @ \cup {[r EXCEPT !.receipt_no = no] : r \in rows}]
                  /\ last' = NoLast
                  /\ UNCHANGED <<inventory, movements, sales, transfers, invoices>>
  /\ UNCHANGED <<invSeq, mvSeq, products, budget>>

\* ------------------------------------------------------------ lock waits
\* The statement worker p is at waits for a lock that worker q holds.
WaitsFor(p, q) ==
  LET me == proc[p]
      it == proc[q]
  IN CASE me.pc = "lock" ->
            LET rows == InvRows(InvView(p), me.tenant, me.product, TargetCt(me.call))
            IN rows # {} /\ (CHOOSE x \in rows : \A y \in rows : x.id <= y.id).id \in it.locks
       [] me.pc = "goc" ->
            LET ct == TargetCt(me.call)
            IN /\ InvRows(InvView(p), me.tenant, me.product, ct) = {}
               /\ \/ \E r \in InvRows(it.tx.inv, me.tenant, me.product, ct) :
                       r.id \notin Ids(inventory)
                  \/ me.product \in it.plocks
       [] me.pc = "save" ->
            ~Insufficient(me.call, me.seen, me.qty) /\ me.inv \in it.locks
       [] me.pc = "post" ->
            LET key == CallKey(p)
                created == CreateOrGetMovement(p, MvView(p), key) \notin MvView(p)
            IN /\ created
               /\ \/ key # NoKey /\ \E m \in it.tx.mv : m.idempotency_key = key
                  \/ me.product \in it.plocks
       [] me.pc = "o_lock" ->
            \E x \in ActiveProducts(me.tenant, {me.wanted[j][1] : j \in 1..Len(me.wanted)}) :
              x.id \in it.plocks \/ KeyShareBy(q, x.id)
       [] me.pc = "o_line" ->
            \E r \in InvRows(InvView(p), me.tenant, me.wanted[me.i][1], BRANCH) :
              r.id \in it.locks
       [] me.pc = "i_lock" ->
            \E x \in sales : \E y \in it.slocks :
              x.order_id = me.rid /\ x.order_id = y.order_id /\ x.line = y.line
       [] me.pc = "i_create" ->
            \/ \E v \in it.tx.invoices : v.invoice_no = me.invoice_no
            \/ \E r \in me.slocks : r.product \in it.plocks
       [] OTHER -> FALSE

\* Worker p is in a set of workers each of which waits for another of the
\* set: none of them can go on.
Deadlocked(p) ==
  \E D \in SUBSET Procs :
    /\ p \in D
    /\ \A x \in D : \E y \in D \ {x} : WaitsFor(x, y)

\* The database's deadlock detector, run by a waiting transaction, finds it
\* in a cycle of lock waits and ends its statement with an error: an
\* exception that no view catches, so the transaction is rolled back, its
\* locks are released and the request is answered 500.
DeadlockAbort(p) ==
  /\ Deadlocked(p)
  /\ IF proc[p].op \in StockOps \/ proc[p].op = "transfers"
       THEN Raise(p, "OperationalError", "deadlock detected")
       ELSE Finish(p, "500", "deadlock detected", EmptyTx, NoResult, NoResult)
  /\ UNCHANGED <<invSeq, mvSeq, products, budget>>

\* ------------------------------------------------------------ views.py: stock_movements
\* Mutant of ByIdDescending: order_by("id") for order_by("-id").
RECURSIVE ByIdAscending(_)
ByIdAscending(rows) ==
  IF rows = {} THEN <<>>
  ELSE LET r == CHOOSE x \in rows : \A y \in rows : x.id <= y.id
       IN <<r>> \o ByIdAscending(rows \ {r})

\* order_by("-id") (views.py:1261).
RECURSIVE ByIdDescending(_)
ByIdDescending(rows) ==
  IF rows = {} THEN <<>>
  ELSE LET r == CHOOSE x \in rows : \A y \in rows : x.id >= y.id
       IN <<r>> \o ByIdDescending(rows \ {r})

\* GET stock/movements (views.py:1250-1276), outside any transaction: the
\* committed movements of the tenant, of product product_id when one is
\* given (0: none given), by descending id, cut by [:limit].  Slicing a
\* queryset with a negative limit raises, which the caller sees as a 500.
StockMovements(tenants, productIds, limits) ==
  /\ \E tenant \in tenants, product_id \in productIds, limit \in limits :
       LET qs == {m \in movements :
                    /\ m.tenant = tenant
                    /\ product_id # 0 => m.product = product_id}
           sorted == ByIdDescending(qs)
           rows == SubSeq(sorted, 1, IF limit < Len(sorted) THEN limit ELSE Len(sorted))
           me == [NoLast EXCEPT !.op = "stock_movements", !.tenant = tenant,
                                !.product = product_id, !.limit = limit]
       IN last' = IF limit < 0
                    THEN [me EXCEPT !.status = "500",
                                    !.error = "Negative indexing is not supported."]
                    ELSE [me EXCEPT !.status = "200", !.rows = rows]
  /\ UNCHANGED <<inventory, movements, sales, transfers, invoices, invSeq, mvSeq, products,
                 budget, proc>>

\* ------------------------------------------------------------ specifications
\* A transaction's steps, whichever request it serves.
Step(p) ==
  \/ Lock(p)
  \/ GetOrCreateInv(p)
  \/ Save(p)
  \/ Post(p)
  \/ Commit(p)

OrderStep(p) ==
  \/ OrderLockProducts(p)
  \/ OrderPrecheck(p)
  \/ OrderLine(p)

\* Stock operations and transfers, with every kind of argument, on an empty
\* database with one product.
Next ==
  \E p \in Procs :
    \/ StartStock(p, StockOps, Tenants, QtyInputs, KeyInputs)
    \/ StartTransfer(p, Tenants, TransferQtys)
    \/ Step(p)

Spec == Init /\ [][Next]_vars

InvoiceStep(p) ==
  \/ InvoiceExisting(p)
  \/ InvoiceLockSales(p)
  \/ InvoiceNextNo(p)
  \/ InvoiceCreate(p)

\* Order capture at a branch that has received stock (receive_from_warehouse
\* of q1 of product 1 and then, unless q2 = 0, of q2 of product 2), while
\* further stock arrives.
OrderViews == {"create_order", "orders_post"}
LineInputs == ProductIds \X (0..MaxQty)
ValidLines == ProductIds \X (1..MaxQty)
LineSeqs == {<<a>> : a \in LineInputs} \cup {<<a, b>> : a \in ValidLines, b \in LineInputs}

BranchReceipt(n, q) ==
  [id |-> n, tenant |-> "Z0", product |-> n, movement_type |-> RECEIVE_FROM_WAREHOUSE,
   qty |-> q, from |-> NoLoc, to |-> BRANCH, idempotency_key |-> <<"uuid4", n>>,
   status |-> POSTED]

InitOrders ==
  \E q1 \in 1..MaxQty, q2 \in 0..MaxQty :
    /\ products = {[id |-> 1, tenant |-> "Z0", status |-> TRUE, price |-> 999],
                   [id |-> 2, tenant |-> "Z0", status |-> TRUE, price |-> 5]}
    /\ inventory = {[id |-> n, tenant |-> "Z0", product |-> n, ct |-> BRANCH,
                     qty |-> IF n = 1 THEN q1 ELSE q2] : n \in IF q2 = 0 THEN {1} ELSE {1, 2}}
    /\ movements = {BranchReceipt(n, IF n = 1 THEN q1 ELSE q2) :
                      n \in IF q2 = 0 THEN {1} ELSE {1, 2}}
    /\ sales = {}
    /\ transfers = {}
    /\ invoices = {}
    /\ invSeq = IF q2 = 0 THEN 1 ELSE 2
    /\ mvSeq = IF q2 = 0 THEN 1 ELSE 2
    /\ budget = MaxOrderReqs
    /\ proc = [p \in Procs |-> IdleProc]
    /\ last = NoLast

NextOrders ==
  \E p \in Procs :
    \/ StartOrder(p, OrderViews, LineSeqs, {0})
    \/ StartStock(p, {"receive_from_warehouse"}, {"Z0"}, 1..MaxQty, {NoKey})
    \/ Step(p)
    \/ OrderStep(p)
    \/ DeadlockAbort(p)

SpecOrders == InitOrders /\ [][NextOrders]_vars

\* Every kind of request, with arguments that pass validation, on an empty
\* database with one product.
NextAll ==
  \E p \in Procs :
    \/ StartStock(p, StockOps, {"Z0"}, 1..MaxQty, KeyInputs)
    \/ StartTransfer(p, {"Z0"}, 1..MaxQty)
    \/ StartOrder(p, OrderViews, {<<a>> : a \in {1} \X (1..MaxQty)}, {0})
    \/ Step(p)
    \/ OrderStep(p)
    \/ DeadlockAbort(p)

SpecAll == Init /\ [][NextAll]_vars

\* Every kind of request of the default tenant, with quantities that pass
\* validation and quantities that do not, on an empty database with one
\* product.
NextQty ==
  \E p \in Procs :
    \/ StartStock(p, StockOps, {"Z0"}, TransferQtys, {NoKey})
    \/ StartTransfer(p, {"Z0"}, TransferQtys)
    \/ StartOrder(p, OrderViews, {<<a>> : a \in {1} \X (0..MaxQty)}, {0})
    \/ Step(p)
    \/ OrderStep(p)
    \/ DeadlockAbort(p)

SpecQty == Init /\ [][NextQty]_vars

\* Receipts into the warehouse for two tenants, each with one product, and
\* listings of the ledger with every tenant, product filter and limit.
LimitInputs == -1..MaxReqs

InitListing ==
  /\ inventory = {}
  /\ movements = {}
  /\ sales = {}
  /\ transfers = {}
  /\ invoices = {}
  /\ invSeq = 0
  /\ mvSeq = 0
  /\ products = {[id |-> 1, tenant |-> "Z0", status |-> TRUE, price |-> 999],
                 [id |-> 2, tenant |-> "Z1", status |-> TRUE, price |-> 999]}
  /\ budget = MaxReqs
  /\ proc = [p \in Procs |-> IdleProc]
  /\ last = NoLast

NextListing ==
  \/ \E p \in Procs :
       \/ StartStock(p, {"receive_to_warehouse"}, Tenants, {1}, {NoKey})
       \/ Step(p)
  \/ StockMovements(Tenants, {0} \cup ProductIds, LimitInputs)

SpecListing == InitListing /\ [][NextListing]_vars

\* Order capture with every price and tax rate, at a branch that holds enough
\* of both products for any order.  Prices are in cents; tax rates are as
\* sent, in hundredths: -0.10, 0, 0.10, 1.00, 1.50 and 10.00.
PriceInputs == {5, 15, 999}
TaxRateInputs == {-10, 0, 10, 100, 150, 1000}
TaxLineSeqs == {<<a>> : a \in ValidLines} \cup {<<a, b>> : a \in ValidLines, b \in ValidLines}

InitTax ==
  \E price1 \in PriceInputs, price2 \in PriceInputs :
    /\ products = {[id |-> 1, tenant |-> "Z0", status |-> TRUE, price |-> price1],
                   [id |-> 2, tenant |-> "Z0", status |-> TRUE, price |-> price2]}
    /\ inventory = {[id |-> n, tenant |-> "Z0", product |-> n, ct |-> BRANCH,
                     qty |-> 2 * MaxQty] : n \in ProductIds}
    /\ movements = {BranchReceipt(n, 2 * MaxQty) : n \in ProductIds}
    /\ sales = {}
    /\ transfers = {}
    /\ invoices = {}
    /\ invSeq = 2
    /\ mvSeq = 2
    /\ budget = MaxSingleOrders
    /\ proc = [p \in Procs |-> IdleProc]
    /\ last = NoLast

NextTax ==
  \E p \in Procs :
    \/ StartOrder(p, OrderViews, TaxLineSeqs, TaxRateInputs)
    \/ OrderStep(p)
    \/ Commit(p)

SpecTax == InitTax /\ [][NextTax]_vars

\* The drain loop over one, two or three branch rows of product 1 (lots), of
\* every quantity in LotQtys, for orders of the quantities in DrainQtys.  The
\* rows are the loop's input: it iterates whatever rows the query returns.
LotQtys == {0, 1, 5, 10}
DrainQtys == {1, 6, 12}
MaxLots == 3
LotSeqs == UNION {[1..n -> LotQtys] : n \in 1..MaxLots}
DrainLineSeqs ==
  {<<a>> : a \in {1} \X DrainQtys} \cup {<<a, b>> : a \in {1} \X DrainQtys, b \in {1} \X DrainQtys}

InitLots ==
  \E lots \in LotSeqs :
    /\ products = {[id |-> 1, tenant |-> "Z0", status |-> TRUE, price |-> 999]}
    /\ inventory = {[id |-> n, tenant |-> "Z0", product |-> 1, ct |-> BRANCH,
                     qty |-> lots[n]] : n \in 1..Len(lots)}
    /\ movements = {[BranchReceipt(n, lots[n]) EXCEPT !.product = 1] :
                      n \in {k \in 1..Len(lots) : lots[k] > 0}}
    /\ sales = {}
    /\ transfers = {}
    /\ invoices = {}
    /\ invSeq = Len(lots)
    /\ mvSeq = Len(lots)
    /\ budget = MaxSingleOrders
    /\ proc = [p \in Procs |-> IdleProc]
    /\ last = NoLast

NextLots ==
  \E p \in Procs :
    \/ StartOrder(p, OrderViews, DrainLineSeqs, {0})
    \/ OrderStep(p)
    \/ Commit(p)

SpecLots == InitLots /\ [][NextLots]_vars

\* Order capture over every catalogue: each product id is an active product
\* of the default tenant, an inactive one, a product of another tenant, or
\* no product at all.  The branch holds stock of every product that exists.
ProductStates == {"active", "inactive", "foreign", "absent"}

CatalogueRow(n, state) ==
  [id |-> n, tenant |-> IF state = "foreign" THEN "Z1" ELSE "Z0",
   status |-> state # "inactive", price |-> 999]

InitCatalogue ==
  \E state \in [ProductIds -> ProductStates] :
    LET there == {n \in ProductIds : state[n] # "absent"}
    IN /\ products = {CatalogueRow(n, state[n]) : n \in there}
       /\ inventory = {[id |-> n, tenant |-> CatalogueRow(n, state[n]).tenant,
                        product |-> n, ct |-> BRANCH, qty |-> 2 * MaxQty] : n \in there}
       /\ movements = {[BranchReceipt(n, 2 * MaxQty) EXCEPT
                          !.tenant = CatalogueRow(n, state[n]).tenant] : n \in there}
       /\ sales = {}
       /\ transfers = {}
       /\ invoices = {}
       /\ invSeq = 2
       /\ mvSeq = 2
       /\ budget = MaxSingleOrders
       /\ proc = [p \in Procs |-> IdleProc]
       /\ last = NoLast

NextCatalogue ==
  \E p \in Procs :
    \/ StartOrder(p, OrderViews, TaxLineSeqs, {0})
    \/ OrderStep(p)
    \/ Commit(p)

SpecCatalogue == InitCatalogue /\ [][NextCatalogue]_vars

\* Orders of one unit of product 1 at a branch that holds two, and invoice
\* requests for every order id, in sequence and concurrently.
InitInvoices ==
  /\ products = {[id |-> 1, tenant |-> "Z0", status |-> TRUE, price |-> 999]}
  /\ inventory = {[id |-> 1, tenant |-> "Z0", product |-> 1, ct |-> BRANCH, qty |-> 2]}
  /\ movements = {BranchReceipt(1, 2)}
  /\ sales = {}
  /\ transfers = {}
  /\ invoices = {}
  /\ invSeq = 1
  /\ mvSeq = 1
  /\ budget = MaxInvoiceReqs
  /\ proc = [p \in Procs |-> IdleProc]
  /\ last = NoLast

NextInvoices ==
  \E p \in Procs :
    \/ StartOrder(p, {"create_order"}, {<<<<1, 1>>>>}, {0})
    \/ OrderStep(p)
    \/ StartInvoice(p, 0..MaxInvoiceReqs)
    \/ InvoiceStep(p)
    \/ Commit(p)

SpecInvoices == InitInvoices /\ [][NextInvoices]_vars

\* Orders, stock operations and transfers of one product at a branch that
\* holds two units of it, every worker going on with its request whenever
\* the database lets its statement through, and the database looking for
\* lock cycles whenever transactions wait.
InitCompletes ==
  /\ products = {[id |-> 1, tenant |-> "Z0", status |-> TRUE, price |-> 999]}
  /\ inventory = {[id |-> 1, tenant |-> "Z0", product |-> 1, ct |-> BRANCH, qty |-> 2]}
  /\ movements = {BranchReceipt(1, 2)}
  /\ sales = {}
  /\ transfers = {}
  /\ invoices = {}
  /\ invSeq = 1
  /\ mvSeq = 1
  /\ budget = MaxReqs
  /\ proc = [p \in Procs |-> IdleProc]
  /\ last = NoLast

ProcStep(p) ==
  \/ Step(p)
  \/ OrderStep(p)
  \/ DeadlockAbort(p)

NextCompletes ==
  \E p \in Procs :
    \/ StartOrder(p, OrderViews, {<<<<1, 1>>>>}, {0})
    \/ StartStock(p, StockOps, {"Z0"}, {1}, {NoKey})
    \/ StartTransfer(p, {"Z0"}, {1})
    \/ ProcStep(p)

SpecCompletes ==
  /\ InitCompletes
  /\ [][NextCompletes]_vars
  /\ \A p \in Procs : WF_vars(ProcStep(p))

\* ------------------------------------------------------------ properties
\* The movement that carries idempotency key key in the committed ledger.
Posted(key) == {m \in movements : m.idempotency_key = key}

\* The committed balance of a product at a location, 0 when it has no row.
OnHand(product, ct) == SumQty(InvRows(inventory, "Z0", product, ct))

\* The committed ledger holds the row that the call reported in last makes:
\* the same operation with the same arguments posted last's key.
PostedBySameCall ==
  \E m \in Posted(last.key) :
    /\ m.movement_type = MovementType(last.call) /\ m.tenant = last.tenant
    /\ m.product = last.product /\ m.qty = last.qty

\* C1: in every reachable state, under every interleaving of the stock
\* operations, transfers and order capture, every balance row has qty >= 0,
\* in the committed table and in what any open transaction has written.
C1_QtyNonNegative ==
  /\ \A r \in inventory : r.qty >= 0
  /\ \A p \in Procs : \A r \in proc[p].tx.inv : r.qty >= 0

\* C1 witness: a dispatch whose UPDATE would have driven the balance below
\* zero was refused by the check constraint.
C1_Witness ==
  /\ last.call = "dispatch_to_branch"
  /\ last.error = "ck_inv_qty_nonnegative"

\* C2: a stock operation called with an idempotency key that was already
\* posted applies no balance delta.
C2_DuplicateKeyAppliesNoDelta ==
  (last.op \in StockOps /\ last.status = "ok" /\ last.dup)
    => last.applied[TargetCt(last.call)] = 0

\* C3: when a stock operation is invoked again with the key its first call
\* posted, the ledger holds exactly one row with that key and the second call
\* succeeds and returns that row's id.
C3_DuplicateKeyReturnsFirstMovement ==
  (last.op \in StockOps /\ last.dup /\ PostedBySameCall)
    => /\ Cardinality(Posted(last.key)) = 1
       /\ last.status = "ok"
       /\ \E m \in Posted(last.key) : last.mv1.movement_id = m.id

\* C4: the warehouse balance of a product equals the INBOUND_RECEIPT
\* quantities into the warehouse minus the DISPATCH_TO_BRANCH quantities out
\* of it, summed over the ledger.
C4_WarehouseBalanceIsLedgerSum ==
  \A pr \in products :
    OnHand(pr.id, WAREHOUSE) =
      SumQty({m \in movements : m.product = pr.id /\ m.movement_type = INBOUND_RECEIPT
                                  /\ m.to = WAREHOUSE})
      - SumQty({m \in movements : m.product = pr.id
                                    /\ m.movement_type = DISPATCH_TO_BRANCH
                                    /\ m.from = WAREHOUSE})

TransferParts(t) ==
  [out |-> \E m \in movements : m.idempotency_key = <<"OUT", t>>
                                  /\ m.movement_type = DISPATCH_TO_BRANCH,
   in |-> \E m \in movements : m.idempotency_key = <<"IN", t>>
                                 /\ m.movement_type = RECEIVE_FROM_WAREHOUSE,
   rec |-> \E x \in transfers : x.transfer_id = t]

TransferIds ==
  {m.idempotency_key[2] : m \in {x \in movements : x.idempotency_key[1] \in {"OUT", "IN"}}}
    \cup {x.transfer_id : x \in transfers}

\* C6: in every committed state a transfer is wholly there or not at all: its
\* two movements and its StockTransfer record exist together, a transfer
\* answered 201 has taken qty from the warehouse and added qty to the branch,
\* and a transfer answered otherwise has committed nothing.
C6_TransferAllOrNothing ==
  /\ \A t \in TransferIds :
       TransferParts(t) = [out |-> TRUE, in |-> TRUE, rec |-> TRUE]
  /\ last.op = "transfers" =>
       IF last.status = "201"
         THEN /\ TransferParts(last.rid) = [out |-> TRUE, in |-> TRUE, rec |-> TRUE]
              /\ last.applied = [warehouse |-> 0 - last.qty, branch |-> last.qty]
         ELSE /\ TransferParts(last.rid) = [out |-> FALSE, in |-> FALSE, rec |-> FALSE]
              /\ ~last.changed

\* C6 witness: a transfer was refused for insufficient warehouse stock.
C6_Witness ==
  /\ last.op = "transfers"
  /\ last.status = "409"
  /\ last.qty > 0
  /\ last.seen < last.qty

C8_SoldEqualsDrained ==
  /\ \A x \in sales : x.unit_sold = x.taken
  /\ \A p \in Procs : \A x \in proc[p].tx.sales : x.unit_sold = x.taken

\* C9 as claimed: a stock operation on a product of another tenant fails
\* with 'Tenant mismatch' for every qty.
C9_AlwaysTenantMismatch ==
  (last.op \in StockOps /\ ProductRow(last.product).tenant # last.tenant)
    => /\ last.status = "StockError"
       /\ last.error = "Tenant mismatch"
       /\ ~last.changed

\* C9 amended: a stock operation on a product of another tenant always fails
\* with a StockError and changes nothing; the error is 'Tenant mismatch'
\* when qty > 0 and 'qty must be > 0' when qty <= 0.
C9_TenantMismatchFails ==
  (last.op \in StockOps /\ ProductRow(last.product).tenant # last.tenant)
    => /\ last.status = "StockError"
       /\ last.error = IF last.qty > 0 THEN "Tenant mismatch" ELSE "qty must be > 0"
       /\ ~last.changed
       /\ last.applied = NoDelta
       /\ last.mv1 = NoResult

\* C9 witness: a call with a positive qty was refused for the tenant.
C9_Witness ==
  /\ last.op \in StockOps
  /\ ProductRow(last.product).tenant # last.tenant
  /\ last.qty > 0
  /\ last.error = "Tenant mismatch"

\* C10: of two identical stock-operation calls that ran at the same time
\* under one idempotency key, the one that finds the other's ledger row
\* committed returns that row's id and no error.
C10_ConcurrentDuplicateReturnsMovement ==
  (last.op \in StockOps /\ last.raced /\ PostedBySameCall)
    => /\ Cardinality(Posted(last.key)) = 1
       /\ last.status = "ok"
       /\ \E m \in Posted(last.key) : last.mv1.movement_id = m.id

\* C11: the StockTransfer record of a transfer references both movements of
\* the transfer: dispatch_movement_id is the id of its DISPATCH_TO_BRANCH
\* movement and receive_movement_id the id of its RECEIVE_FROM_WAREHOUSE
\* movement.
C11_TransferRecordReferencesMovements ==
  \A x \in transfers :
    /\ \E m \in movements :
         /\ m.idempotency_key = <<"OUT", x.transfer_id>>
         /\ m.movement_type = DISPATCH_TO_BRANCH
         /\ x.dispatch_movement_id = m.id
    /\ \E m \in movements :
         /\ m.idempotency_key = <<"IN", x.transfer_id>>
         /\ m.movement_type = RECEIVE_FROM_WAREHOUSE
         /\ x.receive_movement_id = m.id

\* C12: a transfer request whose body was already submitted and committed
\* as a transfer creates no further DISPATCH_TO_BRANCH or
\* RECEIVE_FROM_WAREHOUSE movement and moves no further stock.
C12_TransferRetryIsIdempotent ==
  (last.op = "transfers" /\ last.dup)
    => /\ last.applied = NoDelta
       /\ ~TransferParts(last.rid).out
       /\ ~TransferParts(last.rid).in

\* C13: a successfully captured order has exactly one Sales row per line of
\* the request, also when two lines name the same product.
C13_OneSalesRowPerLine ==
  (last.op \in OrderViews /\ last.status = "201")
    => Cardinality({x \in sales : x.order_id = last.rid}) = Len(last.lines)

\* The Sales rows of the order that last reports.
OrderSales == {x \in sales : x.order_id = last.rid}

\* t cents is x/RateScale cents rounded half-up to the cent: no other whole
\* number of cents is nearer, and of two that are equally near it is the one
\* of greater magnitude.
IsHalfUp(t, x) ==
  LET d == RateScale * t - x
  IN /\ 2 * Abs(d) <= RateScale
     /\ 2 * Abs(d) = RateScale => Abs(RateScale * t) > Abs(x)

\* C14: for every line of a captured order, in cents, the line tax is
\* qty x unit price x tax rate rounded half-up to the cent and the line total
\* is qty x unit price + line tax.
C14_LineTaxRoundedHalfUp ==
  (last.op \in OrderViews /\ last.status = "201")
    => \A x \in OrderSales :
         /\ IsHalfUp(x.tax_value_applied,
                     x.unit_sold * x.unit_price_snapshot * last.tax_rate)
         /\ x.line_total = x.unit_sold * x.unit_price_snapshot + x.tax_value_applied

\* C14 witness: unit price 9.99, qty 3, rate 0.10: tax 3.00, total 32.97.
C14_Witness ==
  /\ last.op \in OrderViews
  /\ last.status = "201"
  /\ last.tax_rate * 10 = RateScale
  /\ \E x \in OrderSales :
       /\ x.unit_price_snapshot = 999 /\ x.unit_sold = 3
       /\ x.tax_value_applied = 300 /\ x.line_total = 3297

\* The sum of the second components of a set of pairs.
RECURSIVE SumSecond(_)
SumSecond(S) ==
  IF S = {} THEN 0
  ELSE LET e == CHOOSE x \in S : TRUE IN e[2] + SumSecond(S \ {e})

\* C15: the figures an order capture returns are the sums over its lines:
\* subtotal of the line subtotals, tax of the persisted line taxes, total of
\* the persisted line totals.
C15_OrderFiguresAreLineSums ==
  (last.op \in OrderViews /\ last.status = "201")
    => /\ last.subtotal =
            SumSecond({<<x.line, x.unit_sold * x.unit_price_snapshot>> : x \in OrderSales})
       /\ last.tax = SumSecond({<<x.line, x.tax_value_applied>> : x \in OrderSales})
       /\ last.total = SumSecond({<<x.line, x.line_total>> : x \in OrderSales})

\* The request that response l answers asked for a quantity <= 0.
NonPositiveQty(l) ==
  IF l.op \in OrderViews
    THEN \E j \in 1..Len(l.lines) : l.lines[j][2] <= 0
    ELSE l.qty <= 0

\* C16: a request with qty <= 0 (an order line, a stock operation or a
\* transfer) is rejected in the step that takes it up: it is answered with an
\* error while no worker's transaction, locks or writes change and no table
\* and no id sequence changes.
C16_NonPositiveQtyRejectedFirst ==
  [][(last'.op # "none" /\ NonPositiveQty(last'))
       => /\ last'.status \notin {"ok", "201"}
          /\ proc' = proc
          /\ UNCHANGED <<inventory, movements, sales, transfers, invoices, invSeq, mvSeq>>]_vars

\* C16 witness: a transfer of a negative qty, which the view lets through to
\* dispatch_to_branch, was refused.
C16_Witness ==
  /\ last.op = "transfers"
  /\ last.qty < 0
  /\ last.status = "409"

\* Product id pid is not an active product of the default tenant, whose
\* orders these are: it does not exist, is inactive, or is another tenant's.
NotOrderable(pid) ==
  \/ \A r \in products : r.id # pid
  \/ \E r \in products : r.id = pid /\ (~r.status \/ r.tenant # "Z0")

\* C17: an order (of well-formed lines) that names a product which does not
\* exist, is inactive or belongs to another tenant is answered 400, reports
\* exactly the ids of such products, and changes no balance and no Sales row.
C17_MissingProductsRejectOrder ==
  (last.op \in OrderViews /\ \E j \in 1..Len(last.lines) : NotOrderable(last.lines[j][1]))
    => /\ last.status = "400"
       /\ last.error = "Products not found or inactive"
       /\ {last.missing[k] : k \in 1..Len(last.missing)}
            = {last.lines[j][1] : j \in {i \in 1..Len(last.lines) :
                                           NotOrderable(last.lines[i][1])}}
       /\ ~last.changed
       /\ last.applied = NoDelta
       /\ \A x \in sales : x.order_id # last.rid

\* C17 witness: an order of two lines, one for an inactive product and one
\* for a product of another tenant, was refused.
C17_Witness ==
  /\ last.op \in OrderViews
  /\ last.status = "400"
  /\ Len(last.lines) = 2
  /\ \E r \in products : r.id = last.lines[1][1] /\ ~r.status
  /\ \E r \in products : r.id = last.lines[2][1] /\ r.tenant # "Z0"

\* The balance of a product of the default tenant at a location in a state
\* of the inventory table.
OnHandIn(rows, product, ct) == SumQty(InvRows(rows, "Z0", product, ct))

\* C18: the step in which a stock operation returns successfully takes the
\* committed balance of the affected location from b to b + qty
\* (receive_to_warehouse, receive_from_warehouse) or to b - qty
\* (dispatch_to_branch), and the onhand_after returned is that new balance.
C18_OnhandAfterIsNewBalance ==
  [][(last'.op \in StockOps /\ last'.status = "ok")
       => LET ct == IF last'.call = "receive_from_warehouse" THEN BRANCH ELSE WAREHOUSE
              before == OnHandIn(inventory, last'.product, ct)
              after == OnHandIn(inventory', last'.product, ct)
          IN /\ after = IF last'.call = "dispatch_to_branch"
                          THEN before - last'.qty ELSE before + last'.qty
             /\ last'.mv1.onhand_after = after]_vars

\* C18 witness: a dispatch of 1 from a warehouse that held 2 returned
\* onhand_after 1.
C18_Witness ==
  /\ last.call = "dispatch_to_branch"
  /\ last.op = "dispatch_to_branch"
  /\ last.status = "ok"
  /\ last.qty = 1
  /\ last.mv1.onhand_after = 1
  /\ OnHand(last.product, WAREHOUSE) = 1

\* C19: the step in which a stock operation called without an idempotency
\* key returns successfully appends exactly one ledger row, of the call's
\* type, product and qty, under a key no earlier row carries, and the call
\* has applied its delta: identical calls without a key make distinct
\* movements and one delta each.
C19_NoKeyAppendsNewRow ==
  [][(last'.op \in StockOps /\ last'.status = "ok" /\ last'.key = NoKey)
       => /\ \E m \in movements' \ movements :
               /\ movements' = movements \cup {m}
               /\ m.id = last'.mv1.movement_id
               /\ m.id \notin Ids(movements)
               /\ m.idempotency_key = last'.mv1.idempotency_key
               /\ m.idempotency_key \notin {x.idempotency_key : x \in movements}
               /\ m.movement_type = MovementType(last'.call)
               /\ m.product = last'.product /\ m.qty = last'.qty
          /\ last'.applied[TargetCt(last'.call)] =
               IF last'.call = "dispatch_to_branch" THEN 0 - last'.qty ELSE last'.qty]_vars

\* C19 witness: receive_to_warehouse was called twice without a key with the
\* same arguments: two ledger rows, and a balance of twice the qty.
C19_Witness ==
  /\ last.op = "receive_to_warehouse"
  /\ last.status = "ok"
  /\ last.key = NoKey
  /\ Cardinality({m \in movements : m.movement_type = INBOUND_RECEIPT
                                      /\ m.product = last.product /\ m.qty = last.qty
                                      /\ m.idempotency_key[1] = "uuid4"}) = 2
  /\ Cardinality(movements) = 2
  /\ OnHand(last.product, WAREHOUSE) = 2 * last.qty

\* The committed movements a listing with the arguments of l asks for.
Asked(l) ==
  {m \in movements : m.tenant = l.tenant /\ (l.product # 0 => m.product = l.product)}

\* C20: stock_movements changes no state, and the rows it returns are
\* movements of the requested tenant (and product, when one is given), in
\* descending id, at most limit of them: the limit most recent ones, or all
\* when there are fewer.
C20_ListingIsReadOnlyAndRecentFirst ==
  [][last'.op = "stock_movements"
       => /\ UNCHANGED <<inventory, movements, sales, transfers, invoices, invSeq, mvSeq,
                         products, budget, proc>>
          /\ last'.status = "200" =>
               LET rows == last'.rows
                   listed == {rows[k] : k \in 1..Len(rows)}
               IN /\ listed \subseteq Asked(last')
                  /\ \A k \in 1..Len(rows) - 1 : rows[k].id > rows[k + 1].id
                  /\ Len(rows) <= last'.limit
                  /\ Len(rows) = last'.limit \/ listed = Asked(last')
                  /\ \A m \in Asked(last') \ listed : \A x \in listed : m.id < x.id]_vars

\* C20 witness: with three movements in the ledger, two of them the
\* tenant's, a listing limited to one row returned the later of the two.
C20_Witness ==
  /\ last.op = "stock_movements"
  /\ last.status = "200"
  /\ last.limit = 1
  /\ Cardinality(movements) = 3
  /\ Cardinality(Asked(last)) = 2
  /\ Len(last.rows) = 1
  /\ \A m \in Asked(last) : m.id <= last.rows[1].id

\* before and after are the branch rows of a product before and after qty
\* units were drained first-in first-out: the same rows, none of them
\* greater; every row before a row that changed is 0; and the total is down
\* by qty, or is 0 when it was below qty.
DrainedFifo(before, after, qty) ==
  /\ Ids(after) = Ids(before)
  /\ \A r \in before : \E x \in after : x.id = r.id /\ 0 <= x.qty /\ x.qty <= r.qty
  /\ \A r \in before, x \in after :
       (x.id > r.id /\ x \notin before) => [r EXCEPT !.qty = 0] \in after
  /\ SumQty(after) = IF SumQty(before) >= qty THEN SumQty(before) - qty ELSE 0

\* C21: each pass of the drain loop of an order leaves the branch rows of its
\* product drained first-in first-out, in ascending row id, by the quantity
\* of its line.
C21_DrainIsFifo ==
  [][\A p \in Procs :
       (proc[p].pc = "o_line" /\ proc'[p] # proc[p] /\ last' = NoLast)
         => LET w == proc[p].wanted[proc[p].i]
            IN DrainedFifo(InvRows(InvView(p), "Z0", w[1], BRANCH),
                           InvRows(InvView(p)', "Z0", w[1], BRANCH), w[2])]_vars

\* C21 witness: rows [10, 5] drained by 12 have become [0, 3].
C21_Witness ==
  /\ last.op \in OrderViews
  /\ last.status = "201"
  /\ last.lines = <<<<1, 12>>>>
  /\ {<<m.id, m.qty>> : m \in movements} = {<<1, 10>>, <<2, 5>>}
  /\ {<<r.id, r.qty>> : r \in inventory} = {<<1, 0>>, <<2, 3>>}

\* C22: a stock operation that has read the balance it is about to validate
\* and adjust holds the exclusive lock on that row (or the row is its own
\* uncommitted insert, which no other transaction can touch), and the
\* quantity it read is the row's quantity: no other transaction has changed
\* it since.
C22_BalanceReadUnderLock ==
  \A p \in Procs :
    proc[p].pc = "save"
      => /\ proc[p].inv \in proc[p].locks \/ proc[p].inv \notin Ids(inventory)
         /\ \A r \in InvView(p) : r.id = proc[p].inv => r.qty = proc[p].seen

\* What a set of ledger rows says happened to the balance of a product at a
\* location: receipts into it minus dispatches out of it.
LedgerDelta(rows, product, ct) ==
  LET of(type) == SumQty({m \in rows : /\ m.tenant = "Z0" /\ m.product = product
                                        /\ m.movement_type = type})
  IN IF ct = WAREHOUSE THEN of(INBOUND_RECEIPT) - of(DISPATCH_TO_BRANCH)
                       ELSE of(RECEIVE_FROM_WAREHOUSE)

\* C23: every step that changes a committed balance commits, in the same
\* transaction, ledger rows that account for the change: the change of each
\* balance equals what the ledger rows added by the step say, for the stock
\* operations and for the branch decrements of order capture.
C23_BalanceChangeHasLedgerRow ==
  [][\A id \in ProductIds : \A ct \in {WAREHOUSE, BRANCH} :
       OnHandIn(inventory', id, ct) - OnHandIn(inventory, id, ct)
         = LedgerDelta(movements' \ movements, id, ct)]_vars

\* C24: every ledger row, committed or written by an open transaction, has
\* qty > 0, has a from-location or a to-location, and has status POSTED.
C24_LedgerRowsWellFormed ==
  \A m \in movements \cup UNION {proc[p].tx.mv : p \in Procs} :
    /\ m.qty > 0
    /\ m.from # "none" \/ m.to # "none"
    /\ m.status = "POSTED"

\* C24 witness: a transfer has committed its two movements next to the
\* receipt into the warehouse that supplied it, so the ledger holds a row of
\* each movement type.
C24_Witness ==
  /\ last.op = "transfers" /\ last.status = "201"
  /\ \A type \in {INBOUND_RECEIPT, DISPATCH_TO_BRANCH, RECEIVE_FROM_WAREHOUSE} :
       \E m \in movements : m.movement_type = type

\* C25: the ledger is append-only: every committed ledger row is, with all
\* its fields, still a committed ledger row after every step, also after a
\* call whose key an earlier call with another operation or quantity posted.
C25_LedgerAppendOnly ==
  [][movements \subseteq movements']_vars

\* C25 witness: a stock operation has returned successfully with the row that
\* an earlier call, of another operation or with another quantity, posted
\* under the same key.
C25_Witness ==
  /\ last.op \in StockOps /\ last.status = "ok" /\ last.key \in ClientKeys
  /\ \E m \in Posted(last.key) :
       /\ m.id = last.mv1.movement_id
       /\ m.movement_type # MovementType(last.call) \/ m.qty # last.qty

\* C26: in every reachable state the committed balance rows of one (tenant,
\* product, location) are at most one, also when two first movements into the
\* location ran concurrently; and no step deletes a committed balance row.
C26_OneBalanceRowPerLocation ==
  /\ [](\A r1 \in inventory, r2 \in inventory :
          (r1.tenant = r2.tenant /\ r1.product = r2.product /\ r1.ct = r2.ct)
            => r1.id = r2.id)
  /\ [][Ids(inventory) \subseteq Ids(inventory')]_vars

\* C26 witness: of two first movements into a location that both found no
\* row to lock, one has inserted the row and committed, and the other's
\* get_or_create has come back with that row, the only one of the location.
C26_Witness ==
  \E p \in Procs :
    /\ proc[p].pc = "save" /\ proc[p].inv \in Ids(inventory)
    /\ proc[p].inv \notin proc[p].locks
    /\ Cardinality(InvRows(inventory, proc[p].tenant, proc[p].product,
                           TargetCt(proc[p].call))) = 1

\* C27: in every reachable state at most one Invoice exists for an order, and
\* every invoice request answered 201 returns that invoice, also after two
\* concurrent requests for the same order.
C27_OneInvoicePerOrder ==
  /\ \A v1 \in invoices, v2 \in invoices :
       (v1.tenant = v2.tenant /\ v1.order_id = v2.order_id) => v1 = v2
  /\ (last.op = "invoices" /\ last.status = "201")
       => \A v \in invoices : v.order_id = last.rid => v.invoice_no = last.invoice_no

\* C28: the movement a stock operation returns is a ledger row of the
\* tenant and the product of the call, of the movement type of the
\* operation, whatever earlier call used the idempotency key.
C28_ReturnedMovementIsOfTheCall ==
  (last.op \in StockOps /\ last.status = "ok")
    => \E m \in movements :
         /\ m.id = last.mv1.movement_id
         /\ m.tenant = last.tenant /\ m.product = last.product
         /\ m.movement_type = MovementType(last.call)

\* C29: the step in which a transfer is answered 201 takes qty off the
\* committed warehouse balance of the product and adds qty to its committed
\* branch balance, so their sum is unchanged, and the warehouse_onhand and
\* branch_onhand of the response are the two new balances.
C29_TransferConservesStock ==
  [][(last'.op = "transfers" /\ last'.status = "201")
       => LET w == OnHandIn(inventory, last'.product, WAREHOUSE)
              b == OnHandIn(inventory, last'.product, BRANCH)
              w2 == OnHandIn(inventory', last'.product, WAREHOUSE)
              b2 == OnHandIn(inventory', last'.product, BRANCH)
          IN /\ w2 = w - last'.qty
             /\ b2 = b + last'.qty
             /\ w2 + b2 = w + b
             /\ last'.mv1.warehouse_onhand = w2
             /\ last'.mv2.branch_onhand = b2]_vars

\* C29 witness: a transfer of a positive quantity has been answered 201 with
\* the committed balances of the warehouse and the branch.
C29_Witness ==
  /\ last.op = "transfers" /\ last.status = "201" /\ last.qty > 0
  /\ last.mv1.warehouse_onhand = OnHand(last.product, WAREHOUSE)
  /\ last.mv2.branch_onhand = OnHand(last.product, BRANCH)
  /\ last.mv2.branch_onhand >= last.qty

====
